---- MODULE Spec2Model ----
(***************************************************************************)
(* A model of dota2data: the YAML-backed Config, the two HTTP clients      *)
(* (LiquipediaParser with its disk cache, OpenDotaClient), the extraction  *)
(* functions, and the Dota2DataParser facade.                              *)
(*                                                                         *)
(* Python values: a dict is a function whose DOMAIN is its key set, a list *)
(* is a sequence, None is the value None, a str is a TLA+ string (or, for  *)
(* the tier texts that are searched, a sequence of characters).            *)
(***************************************************************************)
EXTENDS Integers, Sequences, FiniteSets, TLC

VARIABLES
    config,        \* Config._config of the process-wide Config
    config_file,   \* the lines of the YAML file at Config.config_path
    pc,            \* "new" | "idle" | "enrich" : position of the single thread
    liquipedia,    \* Dota2DataParser.liquipedia : None or the client's fields
    opendota,      \* Dota2DataParser.opendota   : None or the client's fields
    cache,         \* the files of .cache : cache path -> {timestamp, content}
    refreshed,     \* history: the cache paths overwritten while stale
    now,           \* time.time()
    nReq,          \* number of HTTP requests issued so far (bounded)
    nTicks,        \* number of idle periods so far (bounded)
    lpStarts,      \* start times of the last two requests of the wiki client
    odStarts,      \* start times of the last two requests of the API client
    tournament,    \* local of get_tournament_with_match_details
    idx,           \* position of its for loop
    last,          \* what the last completed operation did and returned
    pin,           \* input of the extraction functions (SpecParse)
    pout,          \* their output (SpecParse)
    fs,            \* the configuration files : path -> lines of the YAML file
    heap,          \* the Config objects constructed so far, in order
    _config_instance, \* config._config_instance : NoInstance or a place in heap
    holders        \* what each successful get_config call asked for and got

vars == <<config, config_file, pc, liquipedia, opendota, cache, refreshed, now, nReq, nTicks,
          lpStarts, odStarts, tournament, idx, last, pin, pout,
          fs, heap, _config_instance, holders>>

\* the state of get_config and of the Config objects it hands out
singletonVars == <<fs, heap, _config_instance, holders>>

\* _config_instance = None (config.py line 99); the Config objects are
\* numbered from 1
NoInstance == 0

----------------------------------------------------------------------------
\* Python values

None == "<None>"
\* marks a key, attribute or element that the input does not have
Missing == "<missing>"

\* dict.get(key, default)
Get(d, k, default) == IF k \in DOMAIN d THEN d[k] ELSE default

\* the empty dict
EmptyDict == [k \in {} |-> None]

\* d[k] = v
Put(d, k, v) == [x \in DOMAIN d \cup {k} |-> IF x = k THEN v ELSE d[x]]

\* truth value of an Optional[str]: None and '' are false
Truthy(v) == v # None /\ v # ""

----------------------------------------------------------------------------
\* Bounds of the model

\* time.time() when the process starts
StartTime == 10000
\* HTTP requests per behaviour
MaxRequests == 2
\* idle periods per behaviour
MaxTicks == 1

----------------------------------------------------------------------------
\* Config (src/src/config.py)

\* keys a configuration uses, in the order yaml.dump writes them (sorted)
KeyOrder == <<"data_sources", "enabled", "liquipedia", "opendota",
              "rate_limit", "stratz">>

\* the keys of dict d in yaml.dump's order
RECURSIVE SortedFrom(_, _)
SortedFrom(d, i) ==
    IF i > Len(KeyOrder) THEN <<>>
    ELSE (IF KeyOrder[i] \in DOMAIN d THEN <<KeyOrder[i]>> ELSE <<>>)
         \o SortedFrom(d, i + 1)

SortedKeys(d) == SortedFrom(d, 1)

\* the YAML text of a scalar: a bool under 'enabled', an int under
\* 'rate_limit'
ScalarText(k, v) ==
    IF k = "enabled" THEN (IF v THEN "true" ELSE "false")
    ELSE CASE v = 1 -> "1" [] v = 2 -> "2" [] v = 3 -> "3"

\* the scalar a YAML text denotes
ScalarValue(t) ==
    CASE t = "true" -> TRUE
      [] t = "false" -> FALSE
      [] t = "1" -> 1
      [] t = "2" -> 2
      [] t = "3" -> 3

\* A YAML file is its sequence of lines; a line is its indentation, its key
\* and the text after the colon ("" when a block mapping follows).

\* the lines of a mapping of scalars
RECURSIVE DumpScalars(_, _, _)
DumpScalars(d, keys, indent) ==
    IF keys = <<>> THEN <<>>
    ELSE <<[indent |-> indent, key |-> Head(keys),
            text |-> ScalarText(Head(keys), d[Head(keys)])]>>
         \o DumpScalars(d, Tail(keys), indent)

\* the lines of a mapping of mappings of scalars
RECURSIVE DumpSources(_, _, _)
DumpSources(d, keys, indent) ==
    IF keys = <<>> THEN <<>>
    ELSE LET k == Head(keys)
         IN  (IF DOMAIN d[k] = {}
              THEN <<[indent |-> indent, key |-> k, text |-> "{}"]>>
              ELSE <<[indent |-> indent, key |-> k, text |-> ""]>>
                   \o DumpScalars(d[k], SortedKeys(d[k]), indent + 1))
             \o DumpSources(d, Tail(keys), indent)

\* yaml.dump(self._config, f, default_flow_style=False)
YamlDump(cfg) ==
    IF "data_sources" \notin DOMAIN cfg THEN <<[indent |-> 0, key |-> "{}", text |-> ""]>>
    ELSE LET ds == cfg["data_sources"]
         IN  IF DOMAIN ds = {}
             THEN <<[indent |-> 0, key |-> "data_sources", text |-> "{}"]>>
             ELSE <<[indent |-> 0, key |-> "data_sources", text |-> ""]>>
                  \o DumpSources(ds, SortedKeys(ds), 1)

\* the lines i.. of the block that starts at line i: those indented deeper
\* than `indent`, up to the first that is not
RECURSIVE BlockEnd(_, _, _)
BlockEnd(lines, i, indent) ==
    IF i > Len(lines) \/ lines[i].indent <= indent THEN i - 1
    ELSE BlockEnd(lines, i + 1, indent)

\* the mapping of scalars written on lines i..j
RECURSIVE LoadScalars(_, _, _)
LoadScalars(lines, i, j) ==
    IF i > j THEN EmptyDict
    ELSE Put(LoadScalars(lines, i + 1, j), lines[i].key, ScalarValue(lines[i].text))

\* the mapping of mappings written on lines i..j at indentation `indent`
RECURSIVE LoadSources(_, _, _, _)
LoadSources(lines, i, j, indent) ==
    IF i > j THEN EmptyDict
    ELSE LET e == BlockEnd(lines, i + 1, indent)
             v == IF lines[i].text = "{}" THEN EmptyDict
                  ELSE LoadScalars(lines, i + 1, e)
         IN  Put(LoadSources(lines, e + 1, j, indent), lines[i].key, v)

\* yaml.safe_load(f)
YamlLoad(lines) ==
    IF lines[1].key = "{}" THEN EmptyDict
    ELSE Put(EmptyDict, "data_sources",
             IF lines[1].text = "{}" THEN EmptyDict
             ELSE LoadSources(lines, 2, Len(lines), 1))

\* Config._load_config
_load_config(file) == YamlLoad(file)

\* Config.is_source_enabled
is_source_enabled(cfg, source_name) ==
    LET sources == Get(cfg, "data_sources", EmptyDict)
        source == Get(sources, source_name, EmptyDict)
    IN  Get(source, "enabled", FALSE)

\* Config.get_source_config
get_source_config(cfg, source_name) ==
    LET sources == Get(cfg, "data_sources", EmptyDict)
    IN  Get(sources, source_name, EmptyDict)

\* enable_source, were it to replace the settings of the source
enable_source_config_replacing(cfg, source_name) ==
    LET c1 == IF "data_sources" \notin DOMAIN cfg
              THEN Put(cfg, "data_sources", EmptyDict) ELSE cfg
    IN  Put(c1, "data_sources",
            Put(c1["data_sources"], source_name, Put(EmptyDict, "enabled", TRUE)))

\* Config.enable_source, up to the save: the new value of self._config
enable_source_config(cfg, source_name) ==
    LET c1 == IF "data_sources" \notin DOMAIN cfg
              THEN Put(cfg, "data_sources", EmptyDict) ELSE cfg
        ds1 == c1["data_sources"]
        ds2 == IF source_name \notin DOMAIN ds1
               THEN Put(ds1, source_name, EmptyDict) ELSE ds1
    IN  Put(c1, "data_sources",
            Put(ds2, source_name, Put(ds2[source_name], "enabled", TRUE)))

\* the condition of Config.disable_source
disable_source_applies(cfg, source_name) ==
    "data_sources" \in DOMAIN cfg /\ source_name \in DOMAIN cfg["data_sources"]

\* Config.disable_source, up to the save: the new value of self._config
disable_source_config(cfg, source_name) ==
    LET ds == cfg["data_sources"]
    IN  Put(cfg, "data_sources",
            Put(ds, source_name, Put(ds[source_name], "enabled", FALSE)))

\* Config._save_config: the new content of the file
_save_config(cfg) == YamlDump(cfg)

----------------------------------------------------------------------------
\* Values and markup (bs4 elements, JSON)

\* Optional values that are compared with None carry their kind
PyNone == [kind |-> "None"]
PyDict(d) == [kind |-> "dict", val |-> d]
PyList(l) == [kind |-> "list", val |-> l]
\* a call that has not returned, a call that raised
Pending == [kind |-> "pending"]
Raised(exc) == [kind |-> "raised", exc |-> exc]

\* the record of an operation: its name, whether it has returned, the
\* exception it raised, its result, the call of the client it made with that
\* call's result, what _fetch_page found and did, the API requests it issued
Record(op, done, raised, result, client, fetch, odRequests) ==
    [op |-> op, done |-> done, raised |-> raised, result |-> result,
     client |-> client, fetch |-> fetch, odRequests |-> odRequests]

\* the record when no operation has run
NoOp == Record("none", TRUE, None, PyNone, PyNone, PyNone, <<>>)

\* f"{a}{s}" for a text a kept as a sequence of parts
Concat(a, s) == IF s = "" THEN a ELSE a \o <<s>>

\* str.strip() on the element texts of the model
Strip(t) ==
    CASE t = " " -> ""
      [] t = "TI " -> "TI"
      [] t = " 2" -> "2"
      [] OTHER -> t

\* str.lower() on one character
LowerChar(c) ==
    CASE c = "M" -> "m"
      [] c = "P" -> "p"
      [] c = "U" -> "u"
      [] OTHER -> c

\* str.lower() on a text kept as a sequence of characters
Lower(cs) == [i \in 1..Len(cs) |-> LowerChar(cs[i])]

\* str.strip() on a sequence of characters
RECURSIVE LStripChars(_)
LStripChars(cs) ==
    IF cs # <<>> /\ Head(cs) = " " THEN LStripChars(Tail(cs)) ELSE cs

RECURSIVE RStripChars(_)
RStripChars(cs) ==
    IF cs # <<>> /\ cs[Len(cs)] = " "
    THEN RStripChars(SubSeq(cs, 1, Len(cs) - 1)) ELSE cs

StripChars(cs) == RStripChars(LStripChars(cs))

\* `a in b` on str
Contains(a, b) ==
    \E i \in 1..(Len(b) - Len(a) + 1) : SubSeq(b, i, i + Len(a) - 1) = a

\* the text of the placeholder, as a str and as characters
Unknown == "Unknown"
UnknownChars == <<"U", "n", "k", "n", "o", "w", "n">>

\* truth value of the tier argument: None and '' are false
TierGiven(tier) == tier.kind # "None" /\ tier.val # <<>>

----------------------------------------------------------------------------
\* LiquipediaParser: extraction (src/src/parsers/liquipedia.py)

\* the default of base_url
LP_BASE_URL == <<"https://liquipedia.net/dota2">>

\* link.get('title', link.get_text().strip())
LinkName(link) == IF link.title # Missing THEN link.title ELSE Strip(link.text)

\* link.get('href', '')
LinkPath(link) == IF link.href # Missing THEN link.href ELSE ""

\* the placeholder of a card's missing date or prize, were it the empty str
CardDefaultEmpty == ""

\* the placeholder of a card's missing date or prize
CardDefault == Unknown

\* LiquipediaParser._parse_tournament_card; base_url is self.base_url
_parse_tournament_card(card, year, tier, base_url) ==
    IF card.link.kind = "None" THEN PyNone
    ELSE LET tournament_path == LinkPath(card.link)
             tournament_name == LinkName(card.link)
             dates == IF card.date # Missing THEN Strip(card.date) ELSE CardDefault
             prize_pool == IF card.prize # Missing THEN Strip(card.prize) ELSE CardDefault
         IN  PyDict([name |-> tournament_name,
                     path |-> tournament_path,
                     url |-> Concat(base_url, tournament_path),
                     year |-> year,
                     tier |-> tier,
                     dates |-> dates,
                     prize_pool |-> prize_pool])

\* section.find_previous('h3'): the index of the last h3 before row i, or 0
RECURSIVE find_previous_h3(_, _)
find_previous_h3(rows, i) ==
    IF i <= 1 THEN 0
    ELSE IF rows[i - 1].kind = "h3" THEN i - 1
    ELSE find_previous_h3(rows, i - 1)

\* the tier of the section at row i (get_tournaments, lines 140-141)
SectionTier(rows, i) ==
    LET h == find_previous_h3(rows, i)
    IN  IF h # 0 THEN StripChars(rows[h].text) ELSE UnknownChars

\* the inner loop of get_tournaments (lines 148-151) from card j on
RECURSIVE CardsFrom(_, _, _, _, _)
CardsFrom(cards, j, year, section_tier, base_url) ==
    IF j > Len(cards) THEN <<>>
    ELSE LET tournament_data ==
                 _parse_tournament_card(cards[j], year, section_tier, base_url)
         IN  (IF tournament_data.kind # "None" THEN <<tournament_data.val>> ELSE <<>>)
             \o CardsFrom(cards, j + 1, year, section_tier, base_url)

\* the tier test of get_tournaments (line 144), were it to skip nothing
SectionSkippedNever(tier, section_tier) == FALSE

\* the tier test of get_tournaments (line 144): TRUE when the section is skipped
SectionSkipped(tier, section_tier) ==
    TierGiven(tier) /\ ~Contains(Lower(tier.val), Lower(section_tier))

\* the outer loop of get_tournaments (lines 138-151) from row i on
RECURSIVE SectionsFrom(_, _, _, _, _)
SectionsFrom(rows, i, year, tier, base_url) ==
    IF i > Len(rows) THEN <<>>
    ELSE IF rows[i].kind # "divRow" THEN SectionsFrom(rows, i + 1, year, tier, base_url)
    ELSE LET section_tier == SectionTier(rows, i)
         IN  (IF SectionSkipped(tier, section_tier) THEN <<>>
              ELSE CardsFrom(rows[i].cards, 1, year, section_tier, base_url))
             \o SectionsFrom(rows, i + 1, year, tier, base_url)

\* datetime.now().year
CurrentYear == 2026

\* the year get_tournaments uses (lines 125-126)
YearOf(year) == IF year.kind = "None" THEN CurrentYear ELSE year.val

\* LiquipediaParser.get_tournaments once the page is fetched (lines 125-126,
\* 135-153)
TournamentsOf(soup, year, tier, base_url) ==
    SectionsFrom(soup.rows, 1, YearOf(year), tier, base_url)

\* LiquipediaParser._parse_teams
RECURSIVE TeamsFrom(_, _)
TeamsFrom(teamcards, i) ==
    IF i > Len(teamcards) THEN <<>>
    ELSE (IF teamcards[i].link.kind # "None"
          THEN <<[name |-> LinkName(teamcards[i].link),
                  path |-> LinkPath(teamcards[i].link)]>>
          ELSE <<>>)
         \o TeamsFrom(teamcards, i + 1)

_parse_teams(soup) == TeamsFrom(soup.teamcards, 1)

\* LiquipediaParser._parse_match
_parse_match(match_div) ==
    LET teams == match_div.opponents
        scores == match_div.scores
    IN  IF Len(teams) < 2 THEN PyNone
        ELSE PyDict([team1 |-> Strip(teams[1]),
                     team2 |-> Strip(teams[2]),
                     score1 |-> IF Len(scores) > 0 THEN Strip(scores[1]) ELSE "",
                     score2 |-> IF Len(scores) > 1 THEN Strip(scores[2]) ELSE "",
                     match_id |-> IF match_div.match_id # Missing
                                  THEN match_div.match_id ELSE ""])

\* LiquipediaParser._parse_matches
RECURSIVE MatchesFrom(_, _)
MatchesFrom(match_divs, i) ==
    IF i > Len(match_divs) THEN <<>>
    ELSE LET match_data == _parse_match(match_divs[i])
         IN  (IF match_data.kind # "None" THEN <<match_data.val>> ELSE <<>>)
             \o MatchesFrom(match_divs, i + 1)

_parse_matches(soup) == MatchesFrom(soup.matches, 1)

\* an infobox row's value (lines 220-224, 227-231): the text of the sibling
\* of the row, '' when the row or the sibling is not there
NoSibling == "<no sibling>"
InfoboxValue(row) == IF row # Missing /\ row # NoSibling THEN Strip(row) ELSE ""

\* LiquipediaParser.get_tournament_details once the page is fetched
\* (lines 201-239)
DetailsOf(soup, tournament_path, base_url) ==
    [path |-> tournament_path,
     url |-> Concat(base_url, tournament_path),
     name |-> IF soup.h1 # Missing THEN Strip(soup.h1) ELSE "",
     dates |-> IF soup.infobox.kind # "None"
               THEN InfoboxValue(soup.infobox.dates) ELSE "",
     prize_pool |-> IF soup.infobox.kind # "None"
                    THEN InfoboxValue(soup.infobox.prize) ELSE "",
     teams |-> _parse_teams(soup),
     matches |-> _parse_matches(soup)]

----------------------------------------------------------------------------
\* OpenDotaClient: extraction (src/src/parsers/opendota.py)

\* the keys parse_match_details copies, and the key each is read from
MatchKeys == {"match_id", "duration", "start_time", "radiant_win",
              "radiant_score", "dire_score", "league_id",
              "radiant_team_id", "dire_team_id"}
SourceKey(k) == IF k = "league_id" THEN "leagueid" ELSE k

PlayerKeys == {"account_id", "hero_id", "kills", "deaths", "assists",
               "gold_per_min", "xp_per_min"}

\* one element of the 'players' list comprehension (lines 190-198)
ParsePlayer(p) == [k \in PlayerKeys |-> Get(p, k, None)]

\* TRUE when parse_match_details raises: 'league' is there and is null, and
\* None has no get
ParseRaises(match_data) ==
    /\ match_data.kind = "dict"
    /\ match_data.val # EmptyDict
    /\ Get(match_data.val, "league", PyDict(EmptyDict)).kind = "None"

\* OpenDotaClient.parse_match_details, when it does not raise
parse_match_details(match_data) ==
    IF match_data.kind = "None" \/ match_data.val = EmptyDict THEN EmptyDict
    ELSE LET d == match_data.val
             players == Get(d, "players", <<>>)
         IN  [k \in MatchKeys \cup {"league_name", "players"} |->
                 CASE k = "league_name" ->
                          Get(Get(d, "league", PyDict(EmptyDict)).val, "name", None)
                   [] k = "players" ->
                          [i \in 1..Len(players) |-> ParsePlayer(players[i])]
                   [] OTHER -> Get(d, SourceKey(k), None)]

----------------------------------------------------------------------------
\* The HTTP clients: rate limit, cache, requests

\* the default rate_limit of LiquipediaParser and of OpenDotaClient
LP_RATE_LIMIT == 2
OD_RATE_LIMIT == 1
\* the freshness window of a cache entry, in seconds
CACHE_SECONDS == 3600

\* LiquipediaParser.__init__(config)
LiquipediaParser_init(cfg) ==
    [kind |-> "LiquipediaParser",
     base_url |-> LP_BASE_URL,
     rate_limit |-> Get(cfg, "rate_limit", LP_RATE_LIMIT),
     last_request_time |-> 0]

\* OpenDotaClient.__init__(config)
OpenDotaClient_init(cfg) ==
    [kind |-> "OpenDotaClient",
     base_url |-> <<"https://api.opendota.com/api">>,
     rate_limit |-> Get(cfg, "rate_limit", OD_RATE_LIMIT),
     last_request_time |-> 0]

\* _rate_limit_wait without its sleep
_rate_limit_wait_nosleep(client, t) ==
    [now |-> t, client |-> [client EXCEPT !.last_request_time = t]]

\* LiquipediaParser._rate_limit_wait and OpenDotaClient._rate_limit_wait at
\* time t: the time when it returns and the client it leaves
_rate_limit_wait(client, t) ==
    LET current_time == t
        time_since_last == current_time - client.last_request_time
        woke == IF time_since_last < client.rate_limit
                THEN t + (client.rate_limit - time_since_last)
                ELSE t
    IN  [now |-> woke, client |-> [client EXCEPT !.last_request_time = woke]]

\* LiquipediaParser._get_cache_path; the MD5 of the URL is taken to be
\* distinct for distinct URLs
_get_cache_path(url) == <<".cache", "md5">> \o url

\* LiquipediaParser._get_cached at time t (cache_enabled is always True)
_get_cached(files, t, url) ==
    LET cache_path == _get_cache_path(url)
    IN  IF cache_path \in DOMAIN files
           /\ t - files[cache_path].timestamp < CACHE_SECONDS
        THEN files[cache_path].content
        ELSE None

\* LiquipediaParser._save_cache at time t
_save_cache(files, t, url, content) ==
    Put(files, _get_cache_path(url), [timestamp |-> t, content |-> content])

\* what the network does with one request: whether it succeeds, the text of
\* the response, the seconds it takes
WikiNets ==
    { [ok |-> FALSE, body |-> None, latency |-> 1],
      [ok |-> TRUE, body |-> "", latency |-> 0],
      [ok |-> TRUE, body |-> "<A>", latency |-> 1] }

\* _fetch_page, were the failed request to leave an empty entry in the cache
_fetch_page_caching_failure(lp, files, t, path, net) ==
    LET url == lp.base_url \o path
        cached == _get_cached(files, t, url)
    IN  IF Truthy(cached)
        THEN [page |-> cached, raised |-> None, client |-> lp, files |-> files,
              now |-> t, requests |-> <<>>]
        ELSE LET w == _rate_limit_wait(lp, t)
                 end == w.now + net.latency
             IN  IF net.ok
                 THEN [page |-> net.body, raised |-> None, client |-> w.client,
                       files |-> _save_cache(files, end, url, net.body),
                       now |-> end, requests |-> <<[at |-> w.now, ok |-> TRUE]>>]
                 ELSE [page |-> None, raised |-> None, client |-> w.client,
                       files |-> _save_cache(files, end, url, ""),
                       now |-> end, requests |-> <<[at |-> w.now, ok |-> FALSE]>>]

\* _fetch_page, were it to wait for the rate limit before it looks in the cache
_fetch_page_waiting_first(lp, files, t, path, net) ==
    LET url == lp.base_url \o path
        w == _rate_limit_wait(lp, t)
        cached == _get_cached(files, w.now, url)
        end == w.now + net.latency
    IN  IF Truthy(cached)
        THEN [page |-> cached, raised |-> None, client |-> w.client, files |-> files,
              now |-> w.now, requests |-> <<>>]
        ELSE IF net.ok
             THEN [page |-> net.body, raised |-> None, client |-> w.client,
                   files |-> _save_cache(files, end, url, net.body),
                   now |-> end, requests |-> <<[at |-> w.now, ok |-> TRUE]>>]
             ELSE [page |-> None, raised |-> None, client |-> w.client,
                   files |-> files,
                   now |-> end, requests |-> <<[at |-> w.now, ok |-> FALSE]>>]

\* LiquipediaParser._fetch_page at time t: the page (the text BeautifulSoup is
\* given, None when the request fails), the client, the cache and the time
\* it leaves, and the requests it issued
_fetch_page(lp, files, t, path, net) ==
    LET url == lp.base_url \o path
        cached == _get_cached(files, t, url)
    IN  IF Truthy(cached)
        THEN [page |-> cached, raised |-> None, client |-> lp, files |-> files,
              now |-> t, requests |-> <<>>]
        ELSE LET w == _rate_limit_wait(lp, t)
                 end == w.now + net.latency
             IN  IF net.ok
                 THEN [page |-> net.body, raised |-> None, client |-> w.client,
                       files |-> _save_cache(files, end, url, net.body),
                       now |-> end, requests |-> <<[at |-> w.now, ok |-> TRUE]>>]
                 ELSE [page |-> None, raised |-> None, client |-> w.client,
                       files |-> files,
                       now |-> end, requests |-> <<[at |-> w.now, ok |-> FALSE]>>]

\* _make_request letting the RequestException through
_make_request_raising(od, t, endpoint, net) ==
    LET w == _rate_limit_wait(od, t)
    IN  [json |-> IF net.ok THEN net.json ELSE PyNone,
         raised |-> IF net.ok THEN None ELSE "RequestException",
         client |-> w.client, now |-> w.now + net.latency,
         requests |-> <<[at |-> w.now, ok |-> net.ok]>>]

\* OpenDotaClient._make_request at time t: the decoded response (None when the
\* request fails), the client and the time it leaves, the request it issued
_make_request(od, t, endpoint, net) ==
    LET w == _rate_limit_wait(od, t)
    IN  [json |-> IF net.ok THEN net.json ELSE PyNone,
         raised |-> None,
         client |-> w.client, now |-> w.now + net.latency,
         requests |-> <<[at |-> w.now, ok |-> net.ok]>>]

----------------------------------------------------------------------------
\* Inputs of the extraction functions

\* rows (h3 headers and div.divRow sections) of a tournaments page
MaxRows == 4
\* div.brkts-match elements of a tournament page
MaxMatches == 2

Chars_Major == <<"M", "a", "j", "o", "r">>
Chars_Minor == <<" ", "M", "i", "n", "o", "r", " ">>

NoElem == PyNone
Link(title, text, href) == [kind |-> "a", title |-> title, text |-> text, href |-> href]
LinkTI == Link(Missing, "TI ", "/TI")
LinkESL == Link("ESL One", " ", Missing)

Card(link, date, prize) == [link |-> link, date |-> date, prize |-> prize]
CardTI == Card(LinkTI, Missing, "$1")
CardESL == Card(LinkESL, " 2", Missing)
CardNoLink == Card(NoElem, " 2", "$1")

\* every shape of a card
AllLinks ==
    {NoElem} \cup { Link(t, x, h) : t \in {Missing, "ESL One"}, x \in {" ", "TI "},
                                    h \in {Missing, "/TI"} }
AllCards == { Card(l, d, p) : l \in AllLinks, d \in {Missing, " 2"}, p \in {Missing, "$1"} }

\* the card lists of the sections of a page
CardLists == { <<>>, <<CardTI>>, <<CardNoLink, CardESL>>, <<CardTI, CardESL>> }

RowElems ==
    { [kind |-> "h3", text |-> t, cards |-> <<>>] : t \in {Chars_Major, Chars_Minor} }
    \cup { [kind |-> "divRow", text |-> <<>>, cards |-> c] : c \in CardLists }

SeqsUpTo(S, n) == UNION { [1..k -> S] : k \in 0..n }

TournamentPages ==
    { [rows |-> r] : r \in SeqsUpTo(RowElems, MaxRows) }
    \cup { [rows |-> <<[kind |-> "divRow", text |-> <<>>, cards |-> <<c>>]>>] : c \in AllCards }

TierArgs ==
    {PyNone} \cup { [kind |-> "str", val |-> t] :
                    t \in { <<>>, Chars_Major, <<"m", "i", "n", "o", "r">>,
                            <<"u", "n", "k">> } }

YearArgs == {PyNone, [kind |-> "int", val |-> 2024]}

MatchDiv(opponents, scores, match_id) ==
    [opponents |-> opponents, scores |-> scores, match_id |-> match_id]

MatchDivs ==
    { MatchDiv(<<"A ">>, <<" 2">>, "7"),
      MatchDiv(<<"A ", "B">>, <<>>, Missing),
      MatchDiv(<<"A ", "B">>, <<" 2">>, "7"),
      MatchDiv(<<"A ", "B", "C">>, <<" 2", "1">>, "x") }

Infoboxes ==
    {NoElem} \cup { [kind |-> "div", dates |-> d, prize |-> p] :
                    d \in {Missing, NoSibling, " 2"}, p \in {Missing, NoSibling, "$1"} }

TeamCardLists ==
    { <<>>, <<[link |-> NoElem]>>, <<[link |-> LinkTI], [link |-> NoElem], [link |-> LinkESL]>> }

DetailPages ==
    { [h1 |-> h, infobox |-> b, teamcards |-> t, matches |-> m] :
      h \in {Missing, "TI "}, b \in Infoboxes, t \in TeamCardLists,
      m \in SeqsUpTo(MatchDivs, MaxMatches) }

\* JSON objects of /matches/{id}
ScalarSets == { {}, {"match_id"}, {SourceKey(k) : k \in MatchKeys} }
Leagues == { PyNone, PyDict(EmptyDict), PyDict([k \in {"name"} |-> "DPC"]) }
PlayerLists ==
    { <<>>, <<[k \in PlayerKeys |-> "1"]>>,
      <<EmptyDict, [k \in {"hero_id", "kills"} |-> "1"]>> }

MatchObject(scalars, league, players) ==
    [k \in scalars \cup league.keys \cup players.keys |->
        CASE k = "league" -> league.val
          [] k = "players" -> players.val
          [] OTHER -> "1"]

MatchObjects ==
    { MatchObject(s, l, p) :
      s \in ScalarSets,
      l \in {[keys |-> {}, val |-> PyNone]}
            \cup { [keys |-> {"league"}, val |-> x] : x \in Leagues },
      p \in {[keys |-> {}, val |-> <<>>]}
            \cup { [keys |-> {"players"}, val |-> x] : x \in PlayerLists } }

MatchData == {PyNone} \cup { PyDict(d) : d \in MatchObjects }

\* names a caller may pass as source_name
SourceNames == {"liquipedia", "opendota", "stratz"}

\* the settings a source may carry in the file
SourceShapes ==
    { EmptyDict,
      [k \in {"enabled"} |-> TRUE],
      [k \in {"enabled"} |-> FALSE],
      [k \in {"rate_limit"} |-> 3],
      [k \in {"enabled", "rate_limit"} |-> IF k = "enabled" THEN TRUE ELSE 3] }

\* the data_sources mappings over the two sources the program knows
SourceMaps ==
    UNION { [names -> SourceShapes] : names \in SUBSET {"liquipedia", "opendota"} }

\* the configurations a file may hold
ConfigShapes ==
    {EmptyDict} \cup { Put(EmptyDict, "data_sources", ds) : ds \in SourceMaps }

\* a file written by hand, its keys in no particular order
HandWritten ==
    << [indent |-> 0, key |-> "data_sources", text |-> ""],
       [indent |-> 1, key |-> "opendota", text |-> ""],
       [indent |-> 2, key |-> "rate_limit", text |-> "1"],
       [indent |-> 2, key |-> "enabled", text |-> "false"],
       [indent |-> 1, key |-> "liquipedia", text |-> ""],
       [indent |-> 2, key |-> "rate_limit", text |-> "3"],
       [indent |-> 2, key |-> "enabled", text |-> "true"] >>

\* the files the program may find at config_path
InitialFiles == { YamlDump(c) : c \in ConfigShapes } \cup {HandWritten}

----------------------------------------------------------------------------
\* The operations of Config as steps (SpecConfig)

\* Config.enable_source(source_name) without its save
enable_source_unsaved(source_name) ==
    /\ config' = enable_source_config(config, source_name)
    /\ config_file' = config_file
    /\ last' = [op |-> "enable_source", source |-> source_name, saved |-> FALSE]

\* Config.enable_source(source_name)
enable_source(source_name) ==
    /\ config' = enable_source_config(config, source_name)
    /\ config_file' = _save_config(config')
    /\ last' = [op |-> "enable_source", source |-> source_name, saved |-> TRUE]

\* Config.disable_source(source_name) without its save
disable_source_unsaved(source_name) ==
    IF disable_source_applies(config, source_name)
    THEN /\ config' = disable_source_config(config, source_name)
         /\ config_file' = config_file
         /\ last' = [op |-> "disable_source", source |-> source_name, saved |-> FALSE]
    ELSE /\ UNCHANGED <<config, config_file>>
         /\ last' = [op |-> "disable_source", source |-> source_name, saved |-> FALSE]

\* Config.disable_source(source_name)
disable_source(source_name) ==
    IF disable_source_applies(config, source_name)
    THEN /\ config' = disable_source_config(config, source_name)
         /\ config_file' = _save_config(config')
         /\ last' = [op |-> "disable_source", source |-> source_name, saved |-> TRUE]
    ELSE /\ UNCHANGED <<config, config_file>>
         /\ last' = [op |-> "disable_source", source |-> source_name, saved |-> FALSE]

\* the variables Config does not touch
clientVars == <<pc, liquipedia, opendota, cache, refreshed, now, nReq, nTicks,
                lpStarts, odStarts, tournament, idx>>
parseVars == <<pin, pout>>

EnableSource ==
    \E s \in SourceNames : enable_source(s) /\ UNCHANGED <<clientVars, parseVars, singletonVars>>

DisableSource ==
    \E s \in SourceNames : disable_source(s) /\ UNCHANGED <<clientVars, parseVars, singletonVars>>

\* Config.__init__ has loaded the file at config_path
InitConfig ==
    /\ fs = EmptyDict /\ heap = <<>> /\ _config_instance = NoInstance /\ holders = <<>>
    /\ config_file \in InitialFiles
    /\ config = _load_config(config_file)
    /\ last = NoOp
    /\ pc = "config"
    /\ liquipedia = PyNone /\ opendota = PyNone
    /\ cache = EmptyDict /\ refreshed = {}
    /\ now = StartTime
    /\ nReq = 0 /\ nTicks = 0
    /\ lpStarts = <<>> /\ odStarts = <<>>
    /\ tournament = PyNone /\ idx = 0
    /\ pin = None /\ pout = Pending

NextConfig == EnableSource \/ DisableSource

SpecConfig == InitConfig /\ [][NextConfig]_vars

\* C9: after any sequence of enable_source and disable_source calls, a fresh
\* Config loaded from the same path reports, for every source name, the same
\* is_source_enabled and the same get_source_config as the Config in memory.
C9_FreshConfigAgrees ==
    LET fresh == _load_config(config_file)
    IN  \A s \in SourceNames :
            /\ is_source_enabled(fresh, s) = is_source_enabled(config, s)
            /\ get_source_config(fresh, s) = get_source_config(config, s)

\* C9's case: a source that the file did not have was enabled, then disabled,
\* and both changes were saved
C9_Witness ==
    /\ last.op = "disable_source" /\ last.saved /\ last.source = "stratz"
    /\ ~is_source_enabled(config, "stratz")
    /\ "stratz" \in DOMAIN config["data_sources"]

----------------------------------------------------------------------------
\* The extraction functions applied to drawn inputs (SpecParse)

ParseInputs ==
    { [fn |-> "get_tournaments", soup |-> s, year |-> y, tier |-> t] :
      s \in TournamentPages, y \in YearArgs, t \in TierArgs }
    \cup { [fn |-> "get_tournament_details", soup |-> s, path |-> "/TI"] :
           s \in DetailPages }
    \cup { [fn |-> "parse_match_details", match_data |-> m] : m \in MatchData }

configVars == <<config, config_file>>

\* get_tournaments on a fetched page
ParseTournaments ==
    /\ pin.fn = "get_tournaments" /\ pout = Pending
    /\ pout' = PyList(TournamentsOf(pin.soup, pin.year, pin.tier, LP_BASE_URL))
    /\ UNCHANGED <<configVars, clientVars, last, pin, singletonVars>>

\* get_tournament_details on a fetched page
ParseDetails ==
    /\ pin.fn = "get_tournament_details" /\ pout = Pending
    /\ pout' = PyDict(DetailsOf(pin.soup, pin.path, LP_BASE_URL))
    /\ UNCHANGED <<configVars, clientVars, last, pin, singletonVars>>

\* parse_match_details on a decoded response
ParseMatchDetails ==
    /\ pin.fn = "parse_match_details" /\ pout = Pending
    /\ pout' = IF ParseRaises(pin.match_data) THEN Raised("AttributeError")
               ELSE PyDict(parse_match_details(pin.match_data))
    /\ UNCHANGED <<configVars, clientVars, last, pin, singletonVars>>

InitParse ==
    /\ fs = EmptyDict /\ heap = <<>> /\ _config_instance = NoInstance /\ holders = <<>>
    /\ pin \in ParseInputs
    /\ pout = Pending
    /\ config = EmptyDict /\ config_file = <<>>
    /\ last = NoOp
    /\ pc = "parse"
    /\ liquipedia = PyNone /\ opendota = PyNone
    /\ cache = EmptyDict /\ refreshed = {}
    /\ now = StartTime
    /\ nReq = 0 /\ nTicks = 0
    /\ lpStarts = <<>> /\ odStarts = <<>>
    /\ tournament = PyNone /\ idx = 0

NextParse == ParseTournaments \/ ParseDetails \/ ParseMatchDetails

SpecParse == InitParse /\ [][NextParse]_vars

\* --- what the page of get_tournaments holds, read off the markup ---

\* the last h3 before row i of the page, 0 when there is none
HeaderOf(i) ==
    LET H == { h \in 1..(i - 1) : pin.soup.rows[h].kind = "h3" }
    IN  IF H = {} THEN 0 ELSE CHOOSE h \in H : \A g \in H : g <= h

\* the tier of the section at row i
TierOfRow(i) ==
    IF HeaderOf(i) = 0 THEN UnknownChars
    ELSE StripChars(pin.soup.rows[HeaderOf(i)].text)

\* the section at row i matches the requested tier: the tier's text occurs
\* in the section's, letter case aside
TierMatches(i) == Contains(Lower(pin.tier.val), Lower(TierOfRow(i)))

\* the cards with a link, as <<row, position>>
LinkedCards ==
    UNION { { <<i, j>> : j \in { x \in 1..Len(pin.soup.rows[i].cards) :
                                 pin.soup.rows[i].cards[x].link.kind # "None" } } :
            i \in { r \in 1..Len(pin.soup.rows) : pin.soup.rows[r].kind = "divRow" } }

\* those the call selects
Selected ==
    IF TierGiven(pin.tier) THEN { p \in LinkedCards : TierMatches(p[1]) }
    ELSE LinkedCards

\* document order
Before(p, q) == p[1] < q[1] \/ (p[1] = q[1] /\ p[2] < q[2])

\* the k-th selected card in document order
NthSelected(k) ==
    CHOOSE p \in Selected : Cardinality({ q \in Selected : Before(q, p) }) = k - 1

CardAt(p) == pin.soup.rows[p[1]].cards[p[2]]

\* C8: get_tournaments(year, tier) returns exactly the cards with a link of
\* the sections whose tier matches the requested tier (all sections when tier
\* is None or empty), in document order, each tagged with its section's tier
\* and the requested year (the current year when none is requested).
C8_TournamentsSelected ==
    (pin.fn = "get_tournaments" /\ pout.kind = "list") =>
        /\ Len(pout.val) = Cardinality(Selected)
        /\ \A k \in 1..Len(pout.val) :
               LET p == NthSelected(k)
               IN  /\ pout.val[k].name = LinkName(CardAt(p).link)
                   /\ pout.val[k].path = LinkPath(CardAt(p).link)
                   /\ pout.val[k].tier = TierOfRow(p[1])
                   /\ pout.val[k].year =
                          (IF pin.year.kind = "None" THEN CurrentYear ELSE pin.year.val)

\* C8's case: a tier is requested, a section with a linked card is left out
\* and cards of two sections are returned
C8_Witness ==
    /\ pin.fn = "get_tournaments" /\ pout.kind = "list"
    /\ TierGiven(pin.tier)
    /\ LinkedCards \ Selected # {}
    /\ \E k \in 2..Len(pout.val) : NthSelected(k)[1] # NthSelected(1)[1]

\* --- the records of the extraction functions against their inputs ---

\* the k-th element of the index set S
NthIndex(S, k) == CHOOSE i \in S : Cardinality({ j \in S : j < i }) = k - 1

\* the team cards with a link, the bracket matches with two opponents
LinkedTeams ==
    { i \in 1..Len(pin.soup.teamcards) : pin.soup.teamcards[i].link.kind # "None" }
ParsedMatches ==
    { i \in 1..Len(pin.soup.matches) : Len(pin.soup.matches[i].opponents) >= 2 }

\* a row of the infobox has no value
NoInfo(row) == row = Missing \/ row = NoSibling

\* the record of a tournament card: every key is there, and a field missing
\* from the card has a value of `placeholders` (dates, prize_pool), of
\* `tiers` (tier, for a section without a header) or is ''
CardRecordDefaults(placeholders, tiers) ==
    (pin.fn = "get_tournaments" /\ pout.kind = "list") =>
        \A k \in 1..Len(pout.val) :
            LET p == NthSelected(k)
                c == CardAt(p)
                r == pout.val[k]
            IN  /\ DOMAIN r = {"name", "path", "url", "year", "tier", "dates", "prize_pool"}
                /\ c.date = Missing => r.dates \in placeholders
                /\ c.prize = Missing => r.prize_pool \in placeholders
                /\ HeaderOf(p[1]) = 0 => r.tier \in tiers
                /\ c.link.href = Missing => r.path = ""
                /\ (c.link.title = Missing /\ Strip(c.link.text) = "") => r.name = ""

\* the record of a tournament page, its teams and its bracket matches
DetailRecordDefaults ==
    (pin.fn = "get_tournament_details" /\ pout.kind = "dict") =>
        LET r == pout.val
            s == pin.soup
        IN  /\ DOMAIN r = {"path", "url", "name", "dates", "prize_pool", "teams", "matches"}
            /\ s.h1 = Missing => r.name = ""
            /\ (s.infobox.kind = "None" \/ NoInfo(s.infobox.dates)) => r.dates = ""
            /\ (s.infobox.kind = "None" \/ NoInfo(s.infobox.prize)) => r.prize_pool = ""
            /\ LinkedTeams = {} => r.teams = <<>>
            /\ ParsedMatches = {} => r.matches = <<>>
            /\ Len(r.teams) = Cardinality(LinkedTeams)
            /\ Len(r.matches) = Cardinality(ParsedMatches)
            /\ \A k \in 1..Len(r.teams) :
                   LET l == s.teamcards[NthIndex(LinkedTeams, k)].link
                   IN  /\ DOMAIN r.teams[k] = {"name", "path"}
                       /\ l.href = Missing => r.teams[k].path = ""
                       /\ (l.title = Missing /\ Strip(l.text) = "") => r.teams[k].name = ""
            /\ \A k \in 1..Len(r.matches) :
                   LET m == s.matches[NthIndex(ParsedMatches, k)]
                   IN  /\ DOMAIN r.matches[k] =
                              {"team1", "team2", "score1", "score2", "match_id"}
                       /\ Len(m.scores) < 1 => r.matches[k].score1 = ""
                       /\ Len(m.scores) < 2 => r.matches[k].score2 = ""
                       /\ m.match_id = Missing => r.matches[k].match_id = ""

\* the record of an OpenDota match and of its players
MatchRecordDefaults ==
    (pin.fn = "parse_match_details" /\ pout.kind = "dict" /\ pout.val # EmptyDict) =>
        LET r == pout.val
            d == pin.match_data.val
        IN  /\ DOMAIN r = MatchKeys \cup {"league_name", "players"}
            /\ \A k \in MatchKeys : SourceKey(k) \notin DOMAIN d => r[k] = None
            /\ ("league" \notin DOMAIN d \/ "name" \notin DOMAIN d["league"].val)
                   => r["league_name"] = None
            /\ "players" \notin DOMAIN d => r["players"] = <<>>
            /\ "players" \in DOMAIN d =>
                   /\ Len(r["players"]) = Len(d["players"])
                   /\ \A i \in 1..Len(r["players"]) :
                          /\ DOMAIN r["players"][i] = PlayerKeys
                          /\ \A k \in PlayerKeys :
                                 k \notin DOMAIN d["players"][i] => r["players"][i][k] = None

\* parse_match_details gives a missing or empty match object the empty dict
EmptyMatchRecord ==
    (pin.fn = "parse_match_details"
       /\ (pin.match_data.kind = "None" \/ pin.match_data.val = EmptyDict)
       /\ pout # Pending)
        => pout = PyDict(EmptyDict)

\* C6 (as stated): in every record of the extraction functions, an optional
\* field missing from the markup or the JSON is present with an empty value
\* ('' or []) or None, never with another placeholder.
C6_MissingIsEmptyOrNone ==
    /\ CardRecordDefaults({"", None}, {<<>>})
    /\ DetailRecordDefaults
    /\ MatchRecordDefaults

\* C6 (amended): the same, except that the record of a tournament card holds
\* 'Unknown' for a missing date, a missing prize and the tier of a section
\* without a header, and that a missing or empty match object gives the
\* empty dict.
C6_MissingIsEmptyNoneOrUnknown ==
    /\ CardRecordDefaults({Unknown}, {UnknownChars})
    /\ DetailRecordDefaults
    /\ MatchRecordDefaults
    /\ EmptyMatchRecord

\* C6's case: a card with no date and no prize, in a section with no header,
\* was parsed
C6_Witness ==
    /\ pin.fn = "get_tournaments" /\ pout.kind = "list" /\ Len(pout.val) > 0
    /\ CardAt(NthSelected(1)).date = Missing
    /\ CardAt(NthSelected(1)).prize = Missing
    /\ HeaderOf(NthSelected(1)[1]) = 0
    /\ pout.val[1].dates = Unknown /\ pout.val[1].prize_pool = Unknown
    /\ pout.val[1].tier = UnknownChars

\* the other cases of C6: a page with no infobox and a bracket match with no
\* id; a match object with no league
DetailsCaseParsed ==
    /\ pin.fn = "get_tournament_details" /\ pout.kind = "dict"
    /\ pin.soup.infobox.kind = "None" /\ Len(pout.val.matches) = 2
    /\ pout.val.matches[1].match_id = ""
MatchCaseParsed ==
    /\ pin.fn = "parse_match_details" /\ pout.kind = "dict"
    /\ pout.val # EmptyDict /\ pout.val["league_name"] = None

----------------------------------------------------------------------------
\* Dota2DataParser and the clients it owns (Spec)

\* the pages the wiki serves: the text of a response and the document
\* BeautifulSoup makes of it
EmptyPage ==
    [rows |-> <<>>, h1 |-> Missing, infobox |-> NoElem, teamcards |-> <<>>,
     matches |-> <<>>]
PageA ==
    [rows |-> << [kind |-> "h3", text |-> Chars_Major, cards |-> <<>>],
                 [kind |-> "divRow", text |-> <<>>, cards |-> <<CardTI, CardESL>>] >>,
     h1 |-> "TI ",
     infobox |-> [kind |-> "div", dates |-> " 2", prize |-> Missing],
     teamcards |-> <<[link |-> LinkTI]>>,
     matches |-> << MatchDiv(<<"A ", "B">>, <<" 2", "1">>, "7"),
                    MatchDiv(<<"A ", "B">>, <<>>, Missing),
                    MatchDiv(<<"A ", "B">>, <<" 2">>, "x") >>]
PageB ==
    [rows |-> << [kind |-> "divRow", text |-> <<>>, cards |-> <<CardESL>>] >>,
     h1 |-> Missing,
     infobox |-> NoElem,
     teamcards |-> <<>>,
     matches |-> << MatchDiv(<<"A ", "B">>, <<" 2", "1">>, "7") >>]

\* BeautifulSoup(content, 'lxml')
Soup(content) ==
    CASE content = "<A>" -> PageA
      [] content = "<B>" -> PageB
      [] OTHER -> EmptyPage

\* what the API answers
FullMatch ==
    MatchObject({SourceKey(k) : k \in MatchKeys},
                [keys |-> {"league"}, val |-> PyDict([k \in {"name"} |-> "DPC"])],
                [keys |-> {"players"}, val |-> <<[k \in PlayerKeys |-> "1"]>>])
NullLeagueMatch ==
    MatchObject({"match_id"}, [keys |-> {"league"}, val |-> PyNone],
                [keys |-> {}, val |-> <<>>])
ApiFailure == [ok |-> FALSE, json |-> PyNone, latency |-> 0]
ApiSuccess == [ok |-> TRUE, json |-> PyDict(FullMatch), latency |-> 1]
ApiNets ==
    { ApiFailure, ApiSuccess,
      [ok |-> TRUE, json |-> PyDict(EmptyDict), latency |-> 0],
      [ok |-> TRUE, json |-> PyDict(NullLeagueMatch), latency |-> 0] }

\* the arguments callers pass
TierInputs == {PyNone, [kind |-> "str", val |-> Chars_Major]}
YearInputs == {[kind |-> "int", val |-> 2024]}
PathInputs == {"/TI"}
MatchIdInputs == {"7"}
ApiMethods == {"get_match", "get_player", "get_player_matches", "get_team",
               "get_team_matches", "search_players", "get_pro_matches", "get_heroes"}

\* str(year) inside an f-string
YearText(y) == IF y = 2024 THEN "2024" ELSE "2026"

\* int(match_id) succeeds
IsNumeric(text) == text \in {"7"}

\* the configurations the facade is started with
OnlyEnabled == [k \in {"enabled"} |-> TRUE]
MainConfigs ==
    { EmptyDict,
      Put(EmptyDict, "data_sources",
          [k \in {"liquipedia", "opendota"} |-> OnlyEnabled]),
      Put(EmptyDict, "data_sources",
          [k \in {"liquipedia", "opendota"} |->
              IF k = "liquipedia" THEN [x \in {"rate_limit"} |-> 3] ELSE OnlyEnabled]),
      Put(EmptyDict, "data_sources", [k \in {"liquipedia"} |-> OnlyEnabled]) }
MainFiles == { YamlDump(c) : c \in MainConfigs } \cup {HandWritten}

\* the last two of the requests a client has issued
PushStarts(starts, requests) ==
    LET all == starts \o requests
    IN  IF Len(all) > 2 THEN SubSeq(all, Len(all) - 1, Len(all)) ELSE all

\* what _fetch_page found in the cache and did, for the record of the operation
FetchInfo(path, f) ==
    LET cache_path == _get_cache_path(liquipedia.base_url \o path)
    IN  [kind |-> "fetch",
         cache_path |-> cache_path,
         entry |-> IF cache_path \in DOMAIN cache
                   THEN [kind |-> "entry", timestamp |-> cache[cache_path].timestamp,
                         content |-> cache[cache_path].content]
                   ELSE PyNone,
         at |-> now,
         refreshed |-> cache_path \in refreshed,
         page |-> f.page,
         requests |-> f.requests,
         end |-> f.now]

\* the state a call of _fetch_page leaves
ApplyFetch(path, f) ==
    LET cache_path == _get_cache_path(liquipedia.base_url \o path)
        stale == cache_path \in DOMAIN cache
                 /\ now - cache[cache_path].timestamp >= CACHE_SECONDS
    IN  /\ nReq + Len(f.requests) <= MaxRequests
        /\ liquipedia' = f.client
        /\ cache' = f.files
        /\ now' = f.now
        /\ nReq' = nReq + Len(f.requests)
        /\ lpStarts' = PushStarts(lpStarts, f.requests)
        /\ refreshed' = IF f.files = cache THEN refreshed
                        ELSE IF stale THEN refreshed \cup {cache_path}
                        ELSE refreshed \ {cache_path}

\* the state a call of _make_request leaves
ApplyRequest(m) ==
    /\ nReq + Len(m.requests) <= MaxRequests
    /\ opendota' = m.client
    /\ now' = m.now
    /\ nReq' = nReq + Len(m.requests)
    /\ odStarts' = PushStarts(odStarts, m.requests)

\* main.py 25-27, were the client built whatever the configuration says
ConstructLiquipediaAlways(cfg) ==
    LiquipediaParser_init(get_source_config(cfg, "liquipedia"))

\* main.py 25-27
ConstructLiquipedia(cfg) ==
    IF is_source_enabled(cfg, "liquipedia")
    THEN LiquipediaParser_init(get_source_config(cfg, "liquipedia"))
    ELSE PyNone

\* main.py 29-31
ConstructOpenDota(cfg) ==
    IF is_source_enabled(cfg, "opendota")
    THEN OpenDotaClient_init(get_source_config(cfg, "opendota"))
    ELSE PyNone

\* Dota2DataParser.__init__: get_config loads the file, the clients of the
\* enabled sources are built
Dota2DataParser_init ==
    /\ pc = "new"
    /\ config' = _load_config(config_file)
    /\ liquipedia' = ConstructLiquipedia(config')
    /\ opendota' = ConstructOpenDota(config')
    /\ pc' = "idle"
    /\ last' = Record("__init__", TRUE, None, PyNone, PyNone, PyNone, <<>>)
    /\ UNCHANGED <<singletonVars, config_file, cache, refreshed, now, nReq, nTicks, lpStarts,
                   odStarts, tournament, idx, pin, pout>>

\* an operation that raises before it does anything
Raise(op, exc) ==
    /\ last' = Record(op, TRUE, exc, PyNone, PyNone, PyNone, <<>>)
    /\ UNCHANGED <<singletonVars, config, config_file, pc, liquipedia, opendota, cache, refreshed,
                   now, nReq, nTicks, lpStarts, odStarts, tournament, idx, pin, pout>>

\* LiquipediaParser.get_tournaments: its return value for the page fetched
get_tournaments_result(f, year, tier) ==
    IF f.page = None THEN PyList(<<>>)
    ELSE PyList(TournamentsOf(Soup(f.page), year, tier, liquipedia.base_url))

\* LiquipediaParser.get_tournament_details: its return value for the page
get_tournament_details_result(f, tournament_path) ==
    IF f.page = None THEN PyNone
    ELSE PyDict(DetailsOf(Soup(f.page), tournament_path, liquipedia.base_url))

\* Dota2DataParser.get_tournaments(year, tier)
D2_get_tournaments(year, tier, net) ==
    /\ pc = "idle"
    /\ IF liquipedia.kind = "None" THEN Raise("get_tournaments", "RuntimeError")
       ELSE LET path == <<"/Dota_2/Tournaments/", YearText(YearOf(year))>>
                f == _fetch_page(liquipedia, cache, now, path, net)
                r == get_tournaments_result(f, year, tier)
            IN  /\ ApplyFetch(path, f)
                /\ last' = Record("get_tournaments", TRUE, f.raised, r,
                                  [op |-> "get_tournaments", result |-> r, raised |-> f.raised],
                                  FetchInfo(path, f), <<>>)
                /\ UNCHANGED <<singletonVars, config, config_file, pc, opendota, nTicks, odStarts,
                               tournament, idx, pin, pout>>

\* Dota2DataParser.get_tournament_details(tournament_path)
D2_get_tournament_details(tournament_path, net) ==
    /\ pc = "idle"
    /\ IF liquipedia.kind = "None" THEN Raise("get_tournament_details", "RuntimeError")
       ELSE LET path == <<tournament_path>>
                f == _fetch_page(liquipedia, cache, now, path, net)
                r == get_tournament_details_result(f, tournament_path)
            IN  /\ ApplyFetch(path, f)
                /\ last' = Record("get_tournament_details", TRUE, f.raised, r,
                                  [op |-> "get_tournament_details", result |-> r,
                                   raised |-> f.raised],
                                  FetchInfo(path, f), <<>>)
                /\ UNCHANGED <<singletonVars, config, config_file, pc, opendota, nTicks, odStarts,
                               tournament, idx, pin, pout>>

\* the exception Dota2DataParser.get_match_details ends with, None when it
\* returns
MatchDetailsRaised(m) ==
    IF m.raised # None THEN m.raised
    ELSE IF ParseRaises(m.json) THEN "AttributeError"
    ELSE None

\* Dota2DataParser.get_match_details(match_id)
D2_get_match_details(match_id, net) ==
    /\ pc = "idle"
    /\ IF opendota.kind = "None" THEN Raise("get_match_details", "RuntimeError")
       ELSE LET m == _make_request(opendota, now, <<"/matches/", match_id>>, net)
                raised == MatchDetailsRaised(m)
            IN  /\ ApplyRequest(m)
                /\ last' = Record("get_match_details", TRUE, raised,
                                  IF raised # None THEN PyNone
                                  ELSE PyDict(parse_match_details(m.json)),
                                  [op |-> "get_match", result |-> m.json,
                                   raised |-> m.raised],
                                  PyNone, m.requests)
                /\ UNCHANGED <<singletonVars, config, config_file, pc, liquipedia, cache, refreshed,
                               nTicks, lpStarts, tournament, idx, pin, pout>>

\* a get_* or search_* method of the OpenDotaClient the facade owns
OpenDotaCall(method, net) ==
    /\ pc = "idle"
    /\ opendota.kind # "None"
    /\ LET m == _make_request(opendota, now, <<method>>, net)
       IN  /\ ApplyRequest(m)
           /\ last' = Record(method, TRUE, m.raised, m.json,
                             [op |-> method, result |-> m.json, raised |-> m.raised],
                             PyNone, m.requests)
           /\ UNCHANGED <<singletonVars, config, config_file, pc, liquipedia, cache, refreshed,
                          nTicks, lpStarts, tournament, idx, pin, pout>>

\* match.update(match_details) in place of line 102
EnrichMatchUpdating(match, match_details) ==
    [k \in DOMAIN match \cup DOMAIN match_details |->
        IF k \in DOMAIN match_details THEN match_details[k] ELSE match[k]]

\* match['details'] = match_details (main.py 102)
EnrichMatch(match, match_details) == Put(match, "details", match_details)

\* Dota2DataParser.get_tournament_with_match_details(tournament_path), up to
\* its for loop (lines 90-97)
D2_get_tournament_with_match_details(tournament_path, net) ==
    /\ pc = "idle"
    /\ IF liquipedia.kind = "None" \/ opendota.kind = "None"
       THEN Raise("get_tournament_with_match_details", "RuntimeError")
       ELSE LET path == <<tournament_path>>
                f == _fetch_page(liquipedia, cache, now, path, net)
                r == get_tournament_details_result(f, tournament_path)
                client == [op |-> "get_tournament_details", result |-> r,
                           raised |-> f.raised]
            IN  /\ ApplyFetch(path, f)
                /\ IF r.kind = "None"
                   THEN \* tournament.get on None
                        /\ last' = Record("get_tournament_with_match_details", TRUE,
                                          "AttributeError", PyNone, client,
                                          FetchInfo(path, f), <<>>)
                        /\ UNCHANGED <<pc, tournament, idx>>
                   ELSE /\ last' = Record("get_tournament_with_match_details", FALSE,
                                          None, PyNone, client,
                                          FetchInfo(path, f), <<>>)
                        /\ tournament' = r
                        /\ pc' = "enrich"
                        /\ idx' = 1
                /\ UNCHANGED <<singletonVars, config, config_file, opendota, nTicks, odStarts,
                               pin, pout>>

\* the match the for loop is at
CurrentMatch == tournament.val.matches[idx]

\* the for loop at a match whose match_id is '' or is no number (lines 98-99,
\* and 101 with 103: int() raises ValueError, which is caught)
EnrichSkip ==
    /\ pc = "enrich"
    /\ idx <= Len(tournament.val.matches)
    /\ ~Truthy(CurrentMatch.match_id) \/ ~IsNumeric(CurrentMatch.match_id)
    /\ idx' = idx + 1
    /\ UNCHANGED <<singletonVars, config, config_file, pc, liquipedia, opendota, cache, refreshed,
                   now, nReq, nTicks, lpStarts, odStarts, tournament, last, pin, pout>>

\* the for loop at a match with a numeric match_id (lines 100-104)
EnrichLookup(net) ==
    /\ pc = "enrich"
    /\ idx <= Len(tournament.val.matches)
    /\ Truthy(CurrentMatch.match_id) /\ IsNumeric(CurrentMatch.match_id)
    /\ LET m == _make_request(opendota, now, <<"/matches/", CurrentMatch.match_id>>, net)
           raised == MatchDetailsRaised(m)
       IN  /\ ApplyRequest(m)
           /\ tournament' =
                  IF raised # None THEN tournament
                  ELSE [tournament EXCEPT !.val.matches[idx] =
                            EnrichMatch(@, parse_match_details(m.json))]
           /\ last' = [last EXCEPT !.odRequests = @ \o m.requests]
    /\ idx' = idx + 1
    /\ UNCHANGED <<singletonVars, config, config_file, pc, liquipedia, cache, refreshed, nTicks,
                   lpStarts, pin, pout>>

\* the end of the for loop: return tournament (line 106)
EnrichReturn ==
    /\ pc = "enrich"
    /\ idx > Len(tournament.val.matches)
    /\ last' = [last EXCEPT !.done = TRUE, !.result = tournament]
    /\ tournament' = PyNone
    /\ idx' = 0
    /\ pc' = "idle"
    /\ UNCHANGED <<singletonVars, config, config_file, liquipedia, opendota, cache, refreshed,
                   now, nReq, nTicks, lpStarts, odStarts, pin, pout>>

\* the lengths of the idle periods between operations, in seconds
IdlePeriods == {CACHE_SECONDS - 1, CACHE_SECONDS}

\* time passes between two operations
Tick ==
    /\ pc = "idle"
    /\ nTicks < MaxTicks
    /\ \E dt \in IdlePeriods : now' = now + dt
    /\ nTicks' = nTicks + 1
    /\ UNCHANGED <<singletonVars, config, config_file, pc, liquipedia, opendota, cache, refreshed,
                   nReq, lpStarts, odStarts, tournament, idx, last, pin, pout>>

\* the entries an earlier run may have left in .cache: at most one, about to
\* expire or expired
OldEntries ==
    { [timestamp |-> StartTime - age, content |-> b] :
      age \in {CACHE_SECONDS - 1, CACHE_SECONDS}, b \in {"", "<B>"} }
OldPaths == { _get_cache_path(LP_BASE_URL \o <<x>>) : x \in PathInputs }
InitialCaches ==
    {EmptyDict} \cup { Put(EmptyDict, p, e) : p \in OldPaths, e \in OldEntries }

\* the process starts: no Config is loaded, no client is built
Init ==
    /\ fs = EmptyDict /\ heap = <<>> /\ _config_instance = NoInstance /\ holders = <<>>
    /\ config_file \in MainFiles
    /\ config = EmptyDict
    /\ pc = "new"
    /\ liquipedia = PyNone /\ opendota = PyNone
    /\ cache \in InitialCaches
    /\ refreshed = {}
    /\ now = StartTime
    /\ nReq = 0 /\ nTicks = 0
    /\ lpStarts = <<>> /\ odStarts = <<>>
    /\ tournament = PyNone /\ idx = 0
    /\ last = NoOp
    /\ pin = None /\ pout = Pending

GetTournaments ==
    \E year \in YearInputs, tier \in TierInputs, net \in WikiNets :
        D2_get_tournaments(year, tier, net)

GetTournamentDetails ==
    \E path \in PathInputs, net \in WikiNets : D2_get_tournament_details(path, net)

GetMatchDetails ==
    \E id \in MatchIdInputs, net \in ApiNets : D2_get_match_details(id, net)

GetTournamentWithMatchDetails ==
    \E path \in PathInputs, net \in WikiNets :
        D2_get_tournament_with_match_details(path, net)

CallOpenDota ==
    \E method \in ApiMethods, net \in {ApiFailure, ApiSuccess} :
        OpenDotaCall(method, net)

Enrich == \E net \in ApiNets : EnrichLookup(net)

Next ==
    \/ Dota2DataParser_init
    \/ GetTournaments
    \/ GetTournamentDetails
    \/ GetMatchDetails
    \/ GetTournamentWithMatchDetails
    \/ EnrichSkip
    \/ Enrich
    \/ EnrichReturn
    \/ CallOpenDota
    \/ Tick

Spec == Init /\ [][Next]_vars

----------------------------------------------------------------------------
\* Properties of Spec

\* the last operation fetched a page and found this kind of cache entry
Fetched == last.fetch.kind = "fetch"
EntryFound == Fetched /\ last.fetch.entry.kind = "entry"
EntryAge == last.fetch.at - last.fetch.entry.timestamp
ServedFromCache ==
    last.fetch.requests = <<>> /\ last.fetch.page = last.fetch.entry.content

\* C1 (as stated): for every URL and every stored body, the empty one
\* included, a fetch that finds an entry less than 3600 seconds old returns
\* the page built from the stored content and issues no HTTP request.
C1_FreshEntryServed ==
    (EntryFound /\ EntryAge < CACHE_SECONDS) => ServedFromCache

\* C10 (as stated): an entry 3600 seconds old or older is never served: the
\* fetch issues a request and, when it succeeds, overwrites the entry with the
\* new content and the current time, so that the next fetch of the URL within
\* an hour is served from the cache.
C10_StaleRefetchedThenServed ==
    /\ (EntryFound /\ EntryAge >= CACHE_SECONDS) =>
           /\ Len(last.fetch.requests) = 1
           /\ last.fetch.requests[1].ok =>
                  /\ last.fetch.cache_path \in DOMAIN cache
                  /\ cache[last.fetch.cache_path] =
                         [timestamp |-> last.fetch.end, content |-> last.fetch.page]
    /\ (EntryFound /\ last.fetch.refreshed /\ EntryAge < CACHE_SECONDS) =>
           ServedFromCache

\* the requests of one client respect its rate limit
Spaced(client, starts) ==
    Len(starts) = 2 => starts[2].at - starts[1].at >= client.rate_limit

\* C2: for each client, the starts of any two consecutive HTTP requests it
\* issues are at least rate_limit seconds apart, whether the earlier request
\* succeeded or failed.
C2_RequestsSpaced ==
    /\ Spaced(liquipedia, lpStarts)
    /\ Spaced(opendota, odStarts)

\* C2's case: the wiki client issued a request right after one that failed,
\* and slept to keep the interval
C2_Witness ==
    /\ Len(lpStarts) = 2 /\ ~lpStarts[1].ok
    /\ lpStarts[2].at - lpStarts[1].at = liquipedia.rate_limit
    /\ Len(odStarts) = 0

\* the request of the last operation's client call failed
WikiRequestFailed ==
    Fetched /\ last.fetch.requests # <<>> /\ ~last.fetch.requests[1].ok
ApiRequestFailed ==
    last.odRequests # <<>> /\ ~last.odRequests[1].ok

\* C3: when the HTTP request of a client operation fails, the operation
\* issues exactly one request and returns an empty result without raising:
\* get_tournaments the empty list, get_tournament_details None, every
\* get_* and search_* method of OpenDotaClient None.
C3_FailedRequestGivesEmpty ==
    /\ WikiRequestFailed =>
           /\ Len(last.fetch.requests) = 1
           /\ last.client.raised = None
           /\ last.client.op = "get_tournaments" => last.client.result = PyList(<<>>)
           /\ last.client.op = "get_tournament_details" => last.client.result = PyNone
    /\ (ApiRequestFailed /\ last.op # "get_tournament_with_match_details") =>
           /\ last.client.op \in ApiMethods
           /\ Len(last.odRequests) = 1
           /\ last.client.raised = None
           /\ last.client.result = PyNone

\* C3's case: a search of the API failed
C3_Witness ==
    /\ last.op = "search_players" /\ ApiRequestFailed
    /\ last.result = PyNone /\ last.raised = None

BothEnabled == liquipedia.kind # "None" /\ opendota.kind # "None"

\* C4 (as stated): with both sources enabled, every data operation of
\* Dota2DataParser turns a failed request into an empty result and raises
\* nothing: get_tournaments [], get_tournament_details None,
\* get_match_details {}, get_tournament_with_match_details an empty result
\* and no OpenDota request when the fetch of the wiki page fails.
C4_FacadeFailureGivesEmpty ==
    (BothEnabled /\ last.done) =>
        /\ (WikiRequestFailed /\ last.op = "get_tournaments") =>
               last.raised = None /\ last.result = PyList(<<>>)
        /\ (WikiRequestFailed /\ last.op = "get_tournament_details") =>
               last.raised = None /\ last.result = PyNone
        /\ (ApiRequestFailed /\ last.op = "get_match_details") =>
               last.raised = None /\ last.result = PyDict(EmptyDict)
        /\ (WikiRequestFailed /\ last.op = "get_tournament_with_match_details") =>
               /\ last.raised = None
               /\ last.result \in {PyNone, PyDict(EmptyDict)}
               /\ last.odRequests = <<>>

\* the sources an operation of Dota2DataParser needs
Needs(op) ==
    CASE op \in {"get_tournaments", "get_tournament_details"} -> {"liquipedia"}
      [] op = "get_match_details" -> {"opendota"}
      [] op = "get_tournament_with_match_details" -> {"liquipedia", "opendota"}
      [] OTHER -> {}

\* C5: Dota2DataParser builds the client of a source if and only if the
\* configuration marks the source enabled (a source that is absent, or has
\* no 'enabled' key, counts as disabled); an operation that needs a disabled
\* source raises RuntimeError before any HTTP request, and
\* get_tournament_with_match_details raises it unless both are enabled.
C5_ClientsFollowConfig ==
    pc # "new" =>
        /\ liquipedia.kind # "None" <=> is_source_enabled(config, "liquipedia")
        /\ opendota.kind # "None" <=> is_source_enabled(config, "opendota")
        /\ (\E src \in Needs(last.op) : ~is_source_enabled(config, src)) =>
               /\ last.raised = "RuntimeError"
               /\ last.fetch.kind = "None" /\ last.odRequests = <<>>
        /\ (last.op = "get_tournament_with_match_details"
              /\ last.raised = "RuntimeError") =>
               \E src \in Needs(last.op) : ~is_source_enabled(config, src)

\* C5's case: only the wiki is enabled, and the combined operation was asked
\* for after the wiki client had worked
C5_Witness ==
    /\ last.op = "get_tournament_with_match_details" /\ last.raised = "RuntimeError"
    /\ liquipedia.kind # "None" /\ opendota.kind = "None"
    /\ liquipedia.rate_limit = 3
    /\ nReq = 1

\* the tournament record of get_tournament_with_match_details is in flight
\* before and after the step
InFlight == tournament.kind = "dict" /\ tournament'.kind = "dict"

\* C7 (as stated): once a tournament or match record has been built and
\* returned by a parser operation, no later operation adds, removes or
\* changes a key of it.
C7_NothingMutated == [][InFlight => tournament' = tournament]_vars

\* C7 (amended): the one change made to a record after the parser returned
\* it is that get_tournament_with_match_details adds the key 'details' to
\* match records of the tournament it fetched; no key is removed and no other
\* key is added or changed.
C7_OnlyDetailsAdded ==
    [][InFlight =>
         LET old == tournament.val
             new == tournament'.val
         IN  /\ DOMAIN new = DOMAIN old
             /\ \A k \in DOMAIN old \ {"matches"} : new[k] = old[k]
             /\ Len(new.matches) = Len(old.matches)
             /\ \A i \in 1..Len(old.matches) :
                    /\ DOMAIN old.matches[i] \subseteq DOMAIN new.matches[i]
                    /\ DOMAIN new.matches[i] \subseteq DOMAIN old.matches[i] \cup {"details"}
                    /\ \A k \in DOMAIN old.matches[i] :
                           new.matches[i][k] = old.matches[i][k]]_vars

\* C7's case: the loop has added 'details' to a match record that
\* get_tournament_details had returned, and goes on
C7_Witness ==
    /\ pc = "enrich" /\ idx = 2
    /\ "details" \in DOMAIN tournament.val.matches[1]
    /\ tournament.val.matches[1].details # EmptyDict

\* the step issued an HTTP request of the wiki client, and the request failed
FailedFetchStep ==
    /\ lpStarts' # lpStarts
    /\ ~lpStarts'[Len(lpStarts')].ok

\* the bodies the cache files may hold: those of successful responses, of
\* this run or of an earlier one
SuccessfulBodies ==
    { n.body : n \in { x \in WikiNets : x.ok } } \cup { e.content : e \in OldEntries }

\* C11: a failed fetch leaves the cache files unchanged: when the HTTP request
\* of _fetch_page fails, no entry is created, overwritten or deleted for any
\* URL and the fetch returns no page (a stale entry stays stale and is not
\* served), so the cache only ever holds bodies of successful responses.
C11_FailedFetchKeepsCache ==
    /\ [](\A cache_path \in DOMAIN cache :
             cache[cache_path].content \in SuccessfulBodies)
    /\ [][FailedFetchStep =>
             /\ cache' = cache
             /\ last'.fetch.kind = "fetch" /\ last'.fetch.page = None]_vars

\* C11's case: the request for a page with a stale entry failed; the entry
\* is still there as it was, and a second request for the page failed too
C11_Witness ==
    /\ WikiRequestFailed /\ EntryFound /\ EntryAge >= CACHE_SECONDS
    /\ cache[last.fetch.cache_path] =
           [timestamp |-> last.fetch.entry.timestamp,
            content |-> last.fetch.entry.content]
    /\ Len(lpStarts) = 2 /\ ~lpStarts[1].ok /\ ~lpStarts[2].ok

\* the step is a call of _fetch_page, made by an operation of the wiki client
WikiFetchStep ==
    /\ pc = "idle" /\ nTicks' = nTicks
    /\ last'.fetch.kind = "fetch" /\ last'.fetch.at = now

\* the step changed last_request_time of the wiki client
LastRequestTimeChanged ==
    /\ liquipedia.kind # "None" /\ liquipedia'.kind # "None"
    /\ liquipedia'.last_request_time # liquipedia.last_request_time

\* C12: a _fetch_page call served from the cache does not sleep and leaves
\* last_request_time unchanged; last_request_time is modified only on the
\* path that issues an HTTP request, and is set on that path even if the
\* request then fails.
C12_CacheHitKeepsLastRequestTime ==
    [][/\ (WikiFetchStep /\ last'.fetch.requests = <<>>) =>
              /\ now' = now
              /\ liquipedia' = liquipedia
       /\ LastRequestTimeChanged =>
              /\ WikiFetchStep
              /\ Len(last'.fetch.requests) = 1
              /\ lpStarts' # lpStarts
       /\ (WikiFetchStep /\ last'.fetch.requests # <<>>) =>
              /\ liquipedia'.last_request_time = last'.fetch.requests[1].at
              /\ liquipedia'.last_request_time >= now
              /\ liquipedia'.last_request_time >=
                     liquipedia.last_request_time + liquipedia.rate_limit]_vars

\* C12's case: a page was fetched and cached, a request for another page
\* failed, and then the first page was served from the cache: no time has
\* passed and last_request_time is still the start of the request that failed
C12_Witness ==
    /\ EntryFound /\ ServedFromCache /\ last.fetch.page = "<A>"
    /\ now = last.fetch.at
    /\ Len(lpStarts) = 2 /\ lpStarts[1].ok /\ ~lpStarts[2].ok
    /\ liquipedia.last_request_time = lpStarts[2].at
    /\ now > liquipedia.last_request_time

----------------------------------------------------------------------------
\* Properties of SpecConfig

\* the step is a call of enable_source or disable_source
ConfigStep == last'.op \in {"enable_source", "disable_source"}

\* the sources the configuration names
SourcesOf(cfg) == DOMAIN Get(cfg, "data_sources", EmptyDict)

\* every setting of source t is the same in cfg2 as in cfg1, but for `except`
SameSettings(cfg1, cfg2, t, except) ==
    LET old == get_source_config(cfg1, t)
        new == get_source_config(cfg2, t)
    IN  /\ DOMAIN old \ except = DOMAIN new \ except
        /\ \A k \in DOMAIN old \ except : new[k] = old[k]

\* C13: after enable_source(s), is_source_enabled(s) is True, also when s was
\* not in the configuration; after disable_source(s) it is False;
\* disable_source of a source the configuration does not have changes
\* nothing and writes no file; neither operation changes the enabled flag or
\* another setting of a different source, nor another setting of s.
C13_EnableDisableFrame ==
    /\ [](/\ last.op = "enable_source" => is_source_enabled(config, last.source) = TRUE
          /\ last.op = "disable_source" => is_source_enabled(config, last.source) = FALSE)
    /\ [][ConfigStep =>
             LET s == last'.source
             IN  /\ (last'.op = "disable_source" /\ ~disable_source_applies(config, s)) =>
                        /\ config' = config
                        /\ config_file' = config_file
                        /\ ~last'.saved
                 /\ \A t \in SourceNames \ {s} :
                        /\ t \in SourcesOf(config') <=> t \in SourcesOf(config)
                        /\ SameSettings(config, config', t, {})
                 /\ SameSettings(config, config', s, {"enabled"})
                 /\ DOMAIN config' \ {"data_sources"} = DOMAIN config \ {"data_sources"}]_vars

\* C13's case: a source that has a rate limit and no 'enabled' key was
\* enabled, next to another that is disabled
C13_Witness ==
    /\ last.op = "enable_source" /\ last.source = "liquipedia" /\ last.saved
    /\ get_source_config(config, "liquipedia") =
           [k \in {"enabled", "rate_limit"} |-> IF k = "enabled" THEN TRUE ELSE 3]
    /\ get_source_config(_load_config(config_file), "liquipedia") =
           get_source_config(config, "liquipedia")
    /\ "opendota" \in SourcesOf(config) /\ ~is_source_enabled(config, "opendota")

----------------------------------------------------------------------------
\* get_config and the Config objects it hands out (SpecSingleton)

MaxHolders == 2

\* project_root / "config.yaml", the path of a Config built without one
DefaultPath == "config.yaml"

\* the config_path arguments a caller may pass
PathArgs == {None, "other.yaml", "missing.yaml"}

\* the files that may be there when the process starts: config.yaml and
\* other.yaml, each absent or with one of three contents; missing.yaml never
FileContents ==
    { YamlDump(EmptyDict),
      YamlDump(Put(EmptyDict, "data_sources", [k \in {"opendota"} |-> OnlyEnabled])),
      HandWritten }
StartFiles ==
    UNION { [paths -> FileContents] : paths \in SUBSET {DefaultPath, "other.yaml"} }

\* Config.__init__ (lines 19-25): the object built, or the exception of
\* _load_config when the file does not exist
Config_init(files, config_path) ==
    LET path == IF config_path = None THEN DefaultPath ELSE config_path
    IN  IF path \notin DOMAIN files
        THEN [raised |-> "FileNotFoundError", obj |-> PyNone]
        ELSE [raised |-> None,
              obj |-> [config_path |-> path, _config |-> _load_config(files[path])]]

\* get_config, were it to build a Config at every call
get_config_always_new(instance, objects, files, config_path) ==
    LET c == Config_init(files, config_path)
    IN  IF c.raised # None
        THEN [raised |-> c.raised, result |-> NoInstance,
              heap |-> objects, instance |-> instance]
        ELSE [raised |-> None, result |-> Len(objects) + 1,
              heap |-> Append(objects, c.obj), instance |-> Len(objects) + 1]

\* get_config(config_path): what it raises or returns, the objects there are
\* after it and the value it leaves in _config_instance
get_config(instance, objects, files, config_path) ==
    IF instance = NoInstance
    THEN LET c == Config_init(files, config_path)
         IN  IF c.raised # None
             THEN [raised |-> c.raised, result |-> NoInstance,
                   heap |-> objects, instance |-> instance]
             ELSE [raised |-> None, result |-> Len(objects) + 1,
                   heap |-> Append(objects, c.obj), instance |-> Len(objects) + 1]
    ELSE [raised |-> None, result |-> instance, heap |-> objects, instance |-> instance]

\* the variables get_config and the Config objects do not touch
mainVars == <<config, config_file, clientVars, parseVars>>

\* a caller (a Dota2DataParser under construction, main.py line 19) calls
\* get_config and keeps what it returns
GetConfig ==
    \E config_path \in PathArgs :
        LET g == get_config(_config_instance, heap, fs, config_path)
        IN  /\ Len(holders) < MaxHolders
            /\ heap' = g.heap
            /\ _config_instance' = g.instance
            /\ holders' = IF g.raised = None
                          THEN Append(holders, [asked |-> config_path, instance |-> g.result])
                          ELSE holders
            /\ last' = [op |-> "get_config", config_path |-> config_path,
                        raised |-> g.raised, result |-> g.result]
            /\ UNCHANGED <<fs, mainVars>>

\* a holder calls enable_source on its Config
HolderEnable ==
    \E h \in 1..Len(holders), s \in SourceNames :
        LET i == holders[h].instance
            c == enable_source_config(heap[i]._config, s)
        IN  /\ heap' = [heap EXCEPT ![i]._config = c]
            /\ fs' = Put(fs, heap[i].config_path, _save_config(c))
            /\ last' = [op |-> "enable_source", holder |-> h, source |-> s]
            /\ UNCHANGED <<_config_instance, holders, mainVars>>

\* a holder calls disable_source on its Config
HolderDisable ==
    \E h \in 1..Len(holders), s \in SourceNames :
        LET i == holders[h].instance
        IN  /\ IF disable_source_applies(heap[i]._config, s)
               THEN LET c == disable_source_config(heap[i]._config, s)
                    IN  /\ heap' = [heap EXCEPT ![i]._config = c]
                        /\ fs' = Put(fs, heap[i].config_path, _save_config(c))
               ELSE UNCHANGED <<heap, fs>>
            /\ last' = [op |-> "disable_source", holder |-> h, source |-> s]
            /\ UNCHANGED <<_config_instance, holders, mainVars>>

\* the process starts: config.py has been imported, get_config not yet called
InitSingleton ==
    /\ fs \in StartFiles
    /\ heap = <<>> /\ _config_instance = NoInstance /\ holders = <<>>
    /\ config = EmptyDict /\ config_file = <<>>
    /\ last = NoOp
    /\ pc = "config"
    /\ liquipedia = PyNone /\ opendota = PyNone
    /\ cache = EmptyDict /\ refreshed = {}
    /\ now = StartTime
    /\ nReq = 0 /\ nTicks = 0
    /\ lpStarts = <<>> /\ odStarts = <<>>
    /\ tournament = PyNone /\ idx = 0
    /\ pin = None /\ pout = Pending

NextSingleton == GetConfig \/ HolderEnable \/ HolderDisable

SpecSingleton == InitSingleton /\ [][NextSingleton]_vars

\* the Config a holder holds
ConfigOf(h) == heap[holders[h].instance]

\* the step is a call of get_config that returned
GetConfigReturned == last'.op = "get_config" /\ holders' # holders

\* C14: get_config returns one process-wide Config: after the first
\* successful call every later call returns the same instance whatever
\* config_path it is given (the path is ignored and no file is read again),
\* so an enable or disable made through one holder is visible to all; a
\* first call that fails because the file is missing installs no instance.
C14_OneConfig ==
    /\ [](/\ Len(heap) <= 1
          /\ \A h \in 1..Len(holders) :
                 /\ holders[h].instance = _config_instance
                 /\ _config_instance # NoInstance
          /\ last.op = "enable_source" =>
                 \A h \in 1..Len(holders) :
                     is_source_enabled(ConfigOf(h)._config, last.source) = TRUE
          /\ last.op = "disable_source" =>
                 \A h \in 1..Len(holders) :
                     is_source_enabled(ConfigOf(h)._config, last.source) = FALSE)
    /\ [][/\ (GetConfigReturned /\ _config_instance # NoInstance) =>
                 /\ last'.raised = None
                 /\ last'.result = _config_instance
                 /\ _config_instance' = _config_instance
                 /\ heap' = heap /\ fs' = fs
          /\ (GetConfigReturned /\ _config_instance = NoInstance) =>
                 LET path == IF last'.config_path = None THEN DefaultPath
                             ELSE last'.config_path
                 IN  /\ path \in DOMAIN fs
                     /\ _config_instance' = last'.result
                     /\ heap'[last'.result] =
                            [config_path |-> path, _config |-> _load_config(fs[path])]
          /\ (last'.op = "get_config" /\ last'.raised # None) =>
                 /\ last'.raised = "FileNotFoundError"
                 /\ _config_instance = NoInstance /\ _config_instance' = NoInstance
                 /\ heap' = heap /\ holders' = holders /\ fs' = fs]_vars

\* C14's case: the Config was loaded from other.yaml; a second caller asked
\* for a file that does not exist, got the same Config, and enabled a source
\* through it: the first holder sees the source enabled, and config.yaml,
\* whose content is another, was not read
C14_Witness ==
    /\ Len(holders) = 2
    /\ holders[1].asked = "other.yaml" /\ holders[2].asked = "missing.yaml"
    /\ last.op = "enable_source" /\ last.holder = 2 /\ last.source = "stratz"
    /\ ConfigOf(1).config_path = "other.yaml"
    /\ is_source_enabled(ConfigOf(1)._config, "stratz") = TRUE
    /\ DefaultPath \in DOMAIN fs /\ fs[DefaultPath] = HandWritten
    /\ is_source_enabled(_load_config(fs["other.yaml"]), "stratz") = TRUE
    /\ ~is_source_enabled(_load_config(fs[DefaultPath]), "stratz")

====
